---------------------------- MODULE Spec2Model ----------------------------
(***************************************************************************)
(* Model of the ActionID demo backend: the account store (models/user.ts   *)
(* over the users table of db/schema.sql) and the five request handlers of *)
(* controllers/authController.ts behind the router of routes/authRoutes.ts.*)
(*                                                                         *)
(* A handler is an async function; every `await pool.query(...)` is a      *)
(* point where other requests run.  A handler is therefore cut at its      *)
(* database operations: one action per database operation, each taking     *)
(* with it the synchronous code of the handler that only reads the request *)
(* and the rows already fetched.  register and enroll/complete perform two *)
(* database operations and so have two actions; login, verify-biometric    *)
(* and profile perform one.                                                *)
(*                                                                         *)
(* The browser side is the useActionID hook (hooks/useActionID.ts) and the *)
(* Login page (pages/Login.tsx): one action per event handler, timer       *)
(* callback and continuation after an `await`.  The liveness sampler is    *)
(* the setInterval callback of handleBiometricVerification; one tick is    *)
(* one action.  Calls into the ActionID SDK may throw.  LoginSpec follows   *)
(* the Login page, EnrollSpec the Enroll page (pages/Enroll.tsx), and      *)
(* ApiSpec the calls of services/authService.ts with the response          *)
(* interceptor of services/api.ts, for any caller.                         *)
(*                                                                         *)
(* An optional JSON field is a set: {} when the field is undefined, {v}    *)
(* when it carries v.  Strings that the code inspects (emails, csids) are  *)
(* sequences of one-character strings.                                     *)
(***************************************************************************)
EXTENDS Integers, Sequences, FiniteSets, Bags, TLC

VARIABLES
    users,      \* the rows of table users
    issued,     \* the bearer tokens handed out in responses so far
    pending,    \* the requests waiting at their second database operation
    last,       \* the request answered most recently, with its response
    window,     \* window.Ironvest, crypto.randomUUID, the SDK instances
                \* destroyed, localStorage
    hook,       \* the refs of useActionID
    page,       \* the state of the page component followed, and the route
    deferred,   \* the login request or the timer of the page under way
    attempt,    \* the locals of one handleBiometricVerification
    sample,     \* what the latest tick of the attempt saw
    sent,       \* the verify-biometric and enroll/complete requests sent
    call        \* the authService call under way or settled most recently

backend == <<users, issued, pending, last>>

browser == <<window, hook, page, deferred, attempt, sample, sent, call>>

vars == <<users, issued, pending, last,
          window, hook, page, deferred, attempt, sample, sent, call>>

---------------------------------------------------------------------------
(* Bounds *)

MaxInflight == 2        \* requests that may wait on the database at once

---------------------------------------------------------------------------
(* JavaScript values *)

Undefined == {}
Some(v) == {v}
Val(x) == CHOOSE v \in x : TRUE

\* `!x` for an optional string: undefined and "" are falsy
FalsyString(x) == x = Undefined \/ x = Some(<<>>)

\* `!x` for an optional boolean: undefined and false are falsy
FalsyBool(x) == x = Undefined \/ x = Some(FALSE)

toLowerChar(c) ==
    CASE c = "A" -> "a"
      [] c = "B" -> "b"
      [] c = "C" -> "c"
      [] c = "D" -> "d"
      [] c = "E" -> "e"
      [] c = "F" -> "f"
      [] OTHER -> c

toLowerCase(s) == [i \in DOMAIN s |-> toLowerChar(s[i])]

---------------------------------------------------------------------------
(* Request inputs *)

EmailInputs ==
    { Undefined, Some(<<"a", "b">>), Some(<<"A", "b">>), Some(<<"b", "a">>) }

\* passwords offered at login
PasswordInputs == { Undefined, Some(<<"p">>), Some(<<"q">>) }

\* passwords chosen at registration
NewPasswordInputs == { Undefined, Some(<<"p">>) }

Rep(c, n) == [i \in 1..n |-> c]

\* 8-4-4-4-12 groups built from one character per group
Grouped(a, b, c, d, e) ==
    Rep(a, 8) \o <<"-">> \o Rep(b, 4) \o <<"-">> \o Rep(c, 4) \o <<"-">>
        \o Rep(d, 4) \o <<"-">> \o Rep(e, 12)

UuidMixed == Grouped("A", "b", "4", "F", "0")
NotHex == Grouped("0", "a", "4", "9", "g")          \* 'g' is no hex digit

CsidInputs == { Undefined, Some(<<>>), Some(UuidMixed), Some(NotHex) }

VideoValidatedInputs == { Undefined, Some(TRUE), Some(FALSE) }

---------------------------------------------------------------------------
(* Libraries: bcryptjs, jsonwebtoken, RegExp *)

\* bcrypt.hash(password, 10): an irreversible digest, never the password
bcryptHash(password) == <<"$2a$10$", password>>

\* bcrypt.compare(password, hash)
bcryptCompare(password, hash) == hash = bcryptHash(password)

\* jwt.sign({ userId, email }, JWT_SECRET, { expiresIn: '24h' })
jwtSign(userId, email) == [userId |-> userId, email |-> email, sig |-> "valid"]

\* a token whose signature does not verify (forged, or expired)
ForgedToken == [userId |-> 1, email |-> <<"a", "b">>, sig |-> "invalid"]

HexDigits ==
    { "0", "1", "2", "3", "4", "5", "6", "7", "8", "9",
      "a", "b", "c", "d", "e", "f", "A", "B", "C", "D", "E", "F" }

DashPositions == {9, 14, 19, 24}

\* /^[0-9a-f]{8}-[0-9a-f]{4}-[0-9a-f]{4}-[0-9a-f]{4}-[0-9a-f]{12}$/i .test(s)
uuidRegexTest(s) ==
    /\ Len(s) = 36
    /\ \A i \in 1..36 :
        IF i \in DashPositions THEN s[i] = "-" ELSE s[i] \in HexDigits

---------------------------------------------------------------------------
(* models/user.ts over table users *)

\* new User({ id: row.id, email: row.email, passwordHash: row.password_hash,
\*            enrolled: row.enrolled, ... })
UserOf(row) ==
    [id |-> row.id, email |-> row.email,
     passwordHash |-> row.password_hash, enrolled |-> row.enrolled]

\* as findByEmail, but the email is looked up as typed
findByEmailExact(store, email) ==
    LET rows == { r \in store : r.email = email }
    IN  IF rows = {} THEN Undefined ELSE Some(UserOf(CHOOSE r \in rows : TRUE))

\* SELECT * FROM users WHERE email = $1, with $1 = email.toLowerCase()
findByEmail(store, email) ==
    LET rows == { r \in store : r.email = toLowerCase(email) }
    IN  IF rows = {} THEN Undefined ELSE Some(UserOf(CHOOSE r \in rows : TRUE))

\* SELECT * FROM users WHERE id = $1
findById(store, id) ==
    LET rows == { r \in store : r.id = id }
    IN  IF rows = {} THEN Undefined ELSE Some(UserOf(CHOOSE r \in rows : TRUE))

\* as NewRow, but the email is stored as typed
NewRowVerbatim(id, email, passwordHash) ==
    [id |-> id, email |-> email,
     password_hash |-> passwordHash, enrolled |-> FALSE]

\* as NewRow, but the row is inserted as already enrolled
NewRowEnrolled(id, email, passwordHash) ==
    [id |-> id, email |-> toLowerCase(email),
     password_hash |-> passwordHash, enrolled |-> TRUE]

\* the row of INSERT INTO users (email, password_hash, enrolled)
\*   VALUES (email.toLowerCase(), passwordHash, false), id drawn by the table
NewRow(id, email, passwordHash) ==
    [id |-> id, email |-> toLowerCase(email),
     password_hash |-> passwordHash, enrolled |-> FALSE]

\* id UUID PRIMARY KEY DEFAULT gen_random_uuid(): a value no row carries yet.
\* Ids are opaque and only ever compared for equality, and rows are never
\* deleted, so the number of the row stands for the value drawn.
FreshId(store) == Cardinality(store) + 1

\* email VARCHAR(255) UNIQUE: the insert is refused when the value is present
UniqueViolation(store, row) == \E r \in store : r.email = row.email

\* as markEnrolled, but the update flips the flag
markEnrolledToggle(store, userId) ==
    { IF r.id = userId THEN [r EXCEPT !.enrolled = ~r.enrolled] ELSE r : r \in store }

\* as markEnrolled, but the update has lost its WHERE clause
markEnrolledAll(store, userId) ==
    { [r EXCEPT !.enrolled = TRUE] : r \in store }

\* UPDATE users SET enrolled = true, ... WHERE id = $2
markEnrolled(store, userId) ==
    { IF r.id = userId THEN [r EXCEPT !.enrolled = TRUE] ELSE r : r \in store }

---------------------------------------------------------------------------
(* middleware/auth.ts *)

\* res.status(code).json(body)
Json(status, body) == [status |-> status, body |-> body]

\* authenticateToken: the account the bearer token resolves to, looked up in
\* the store at the time of the request; undefined when the header is absent,
\* the signature does not verify, or the account is unknown
authenticateToken(store, token) ==
    IF token = Undefined THEN Undefined
    ELSE IF Val(token).sig # "valid" THEN Undefined
    ELSE findById(store, Val(token).userId)

\* the answer of authenticateToken when it does not call next()
Unauthorized == Json(401, [error |-> "Unauthorized"])

---------------------------------------------------------------------------
(* controllers/authController.ts: the synchronous decisions of the handlers *)

PublicUser(user) == [id |-> user.id, email |-> user.email, enrolled |-> user.enrolled]

\* register, up to the insert: the early answer, or undefined to go on
registerCheck(body, existingUser) ==
    IF FalsyString(body.email) \/ FalsyString(body.password)
    THEN Some(Json(400, [error |-> "Email and password are required"]))
    ELSE IF existingUser # Undefined
    THEN Some(Json(400, [error |-> "User already exists"]))
    ELSE Undefined

\* register, after the insert
registerRespond(user) ==
    Json(201, [message |-> "User registered successfully",
               user |-> PublicUser(user),
               token |-> jwtSign(user.id, user.email)])

InternalServerError == Json(500, [error |-> "Internal server error"])

\* as loginRespond, but an unknown email is told apart from a wrong password
loginRespondNotFound(body, found) ==
    IF FalsyString(body.email) \/ FalsyString(body.password)
    THEN Json(400, [error |-> "Email and password are required"])
    ELSE IF found = Undefined
    THEN Json(404, [error |-> "User not found"])
    ELSE IF ~bcryptCompare(Val(body.password), Val(found).passwordHash)
    THEN Json(401, [error |-> "Invalid credentials"])
    ELSE Json(200, [message |-> "Login successful",
                    user |-> PublicUser(Val(found)),
                    token |-> jwtSign(Val(found).id, Val(found).email)])

\* as loginRespond, but the user of the answer is built with the default
\* enrolled = false instead of the fetched flag
loginRespondDefaultEnrolled(body, found) ==
    IF FalsyString(body.email) \/ FalsyString(body.password)
    THEN Json(400, [error |-> "Email and password are required"])
    ELSE IF found = Undefined
    THEN Json(401, [error |-> "Invalid credentials"])
    ELSE IF ~bcryptCompare(Val(body.password), Val(found).passwordHash)
    THEN Json(401, [error |-> "Invalid credentials"])
    ELSE Json(200, [message |-> "Login successful",
                    user |-> [id |-> Val(found).id, email |-> Val(found).email,
                              enrolled |-> FALSE],
                    token |-> jwtSign(Val(found).id, Val(found).email)])

\* login, after findByEmail has answered `found`
loginRespond(body, found) ==
    IF FalsyString(body.email) \/ FalsyString(body.password)
    THEN Json(400, [error |-> "Email and password are required"])
    ELSE IF found = Undefined
    THEN Json(401, [error |-> "Invalid credentials"])
    ELSE IF ~bcryptCompare(Val(body.password), Val(found).passwordHash)
    THEN Json(401, [error |-> "Invalid credentials"])
    ELSE Json(200, [message |-> "Login successful",
                    user |-> PublicUser(Val(found)),
                    token |-> jwtSign(Val(found).id, Val(found).email)])

\* as verifyBiometricRespond, but a csid is tied to one account: the first
\* account's sessions are the only ones accepted
verifyBiometricBoundToAccount(body, user) ==
    IF FalsyString(body.csid)
    THEN Json(400, [error |-> "CSID is required"])
    ELSE IF FalsyBool(body.videoValidated)
    THEN Json(400, [error |->
        "Video stream validation required. Camera must be active and capturing."])
    ELSE IF ~uuidRegexTest(Val(body.csid))
    THEN Json(400, [error |-> "Invalid CSID format"])
    ELSE IF ~user.enrolled
    THEN Json(400, [error |->
        "User must complete enrollment before biometric verification"])
    ELSE IF user.id # 1
    THEN Json(403, [verified |-> FALSE, error |-> "Biometric verification failed",
                    message |-> "Biometric data did not match enrolled profile"])
    ELSE Json(200, [verified |-> TRUE,
                    message |-> "Biometric verification successful"])

\* as verifyBiometricRespond, but the csid format is checked before the
\* videoValidated flag
verifyBiometricFormatFirst(body, user) ==
    IF FalsyString(body.csid)
    THEN Json(400, [error |-> "CSID is required"])
    ELSE IF ~uuidRegexTest(Val(body.csid))
    THEN Json(400, [error |-> "Invalid CSID format"])
    ELSE IF FalsyBool(body.videoValidated)
    THEN Json(400, [error |->
        "Video stream validation required. Camera must be active and capturing."])
    ELSE IF ~user.enrolled
    THEN Json(400, [error |->
        "User must complete enrollment before biometric verification"])
    ELSE Json(200, [verified |-> TRUE,
                    message |-> "Biometric verification successful"])

\* verifyBiometric, with req.user = user
verifyBiometricRespond(body, user) ==
    IF FalsyString(body.csid)
    THEN Json(400, [error |-> "CSID is required"])
    ELSE IF FalsyBool(body.videoValidated)
    THEN Json(400, [error |->
        "Video stream validation required. Camera must be active and capturing."])
    ELSE IF ~uuidRegexTest(Val(body.csid))
    THEN Json(400, [error |-> "Invalid CSID format"])
    ELSE IF ~user.enrolled
    THEN Json(400, [error |->
        "User must complete enrollment before biometric verification"])
    ELSE Json(200, [verified |-> TRUE,
                    message |-> "Biometric verification successful"])

\* as completeEnrollmentCheck, but the csid must be UUID-shaped, as in
\* verifyBiometric
completeEnrollmentCheckFormat(body) ==
    IF FalsyString(body.csid)
    THEN Some(Json(400, [error |-> "CSID is required"]))
    ELSE IF ~uuidRegexTest(Val(body.csid))
    THEN Some(Json(400, [error |-> "Invalid CSID format"]))
    ELSE Undefined

\* completeEnrollment, up to the update: the early answer, or undefined
completeEnrollmentCheck(body) ==
    IF FalsyString(body.csid)
    THEN Some(Json(400, [error |-> "CSID is required"]))
    ELSE Undefined

\* completeEnrollment, after the update
completeEnrollmentRespond ==
    Json(200, [enrolled |-> TRUE,
               message |-> "Biometric enrollment completed successfully"])

\* getProfile, with req.user = user
getProfileRespond(user) == Json(200, [user |-> PublicUser(user)])

---------------------------------------------------------------------------
(* Requests in progress and answered *)

Body(email, password, csid, videoValidated) ==
    [email |-> email, password |-> password,
     csid |-> csid, videoValidated |-> videoValidated]

NoBody == Body(Undefined, Undefined, Undefined, Undefined)

\* a request suspended at `await`: pc names the database operation it waits
\* for, userId is `const userId = req.user!.id`
Pending(pc, kind, token, body, userId) ==
    [pc |-> pc, kind |-> kind, token |-> token, body |-> body, userId |-> userId]

\* an answered request: userId is the id of the account the handler had
\* fetched or created, undefined when it had none
Answered(kind, token, body, userId, res) ==
    [kind |-> kind, token |-> token, body |-> body, userId |-> userId, res |-> res]

IdOf(user) == IF user = Undefined THEN Undefined ELSE Some(Val(user).id)

NoneYet == Answered("none", Undefined, NoBody, Undefined, Json(0, [error |-> ""]))

Inflight == BagCardinality(pending)

\* the Authorization headers a client can send
TokenInputs == { Undefined, Some(ForgedToken) } \cup { Some(t) : t \in issued }

---------------------------------------------------------------------------
(* The browser side: the SDK hook and the login page *)

\* the most csids one page mints
MaxInit == 2

\* instanceRef.current = null, csidRef.current = ''
Null == 0

\* `const maxAttempts = 30`
maxAttempts == 30

\* `const requiredValidCaptures = 20`
requiredValidCaptures == 20

\* `Math.min(data.length, 10000)`
sampleLimit == 10000

\* `r > 30 || g > 30 || b > 30`
brightnessFloor == 30

\* `nonBlackRatio < 0.05`, in percent
nonBlackPercent == 5

Min(a, b) == IF a < b THEN a ELSE b

---------------------------------------------------------------------------
(* What one tick of the sampler sees in the camera container *)

\* a MediaStreamTrack: readyState, muted, enabled and getSettings()
Track(readyState, muted, enabled, width, height) ==
    [readyState |-> readyState, muted |-> muted, enabled |-> enabled,
     width |-> width, height |-> height]

LiveTrack == Track("live", FALSE, TRUE, 100, 100)

\* image data as runs of equal pixels, in row order
Run(r, g, b, n) == [r |-> r, g |-> g, b |-> b, n |-> n]

\* every pixel lit
BrightFrame == << Run(200, 200, 200, 10000) >>

\* every pixel black
BlackFrame == << Run(0, 0, 0, 10000) >>

\* every pixel exactly at the floor on all channels
FloorFrame == << Run(30, 30, 30, 10000) >>

\* every pixel above the floor on one channel only
GreenFrame == << Run(0, 31, 0, 10000) >>

\* 5% of the frame lit, in its first rows, 95% black
LitTopFrame == << Run(200, 200, 200, 500), Run(0, 0, 0, 9500) >>

\* the first rows black, the other three quarters lit
BlackTopFrame == << Run(0, 0, 0, 2500), Run(200, 200, 200, 7500) >>

\* a 40x50 frame with exactly 5% of its pixels lit
SmallFivePercentFrame == << Run(0, 0, 0, 1900), Run(200, 200, 200, 100) >>

\* a 40x50 frame with one pixel less than 5% lit
SmallCoveredFrame == << Run(0, 0, 0, 1901), Run(200, 200, 200, 99) >>

\* the video element found by container.querySelector('video'), its stream,
\* and what drawing it to a canvas yields
Signals(video, paused, ended, readyState, srcObject, active, tracks, videoWidth, videoHeight, canvas, frame) ==
    [video |-> video, paused |-> paused, ended |-> ended,
     readyState |-> readyState, srcObject |-> srcObject, active |-> active,
     tracks |-> tracks, videoWidth |-> videoWidth, videoHeight |-> videoHeight,
     canvas |-> canvas, frame |-> frame]

\* a playing camera, no frame drawn from it
Capturing ==
    Signals(TRUE, FALSE, FALSE, 4, TRUE, TRUE, << LiveTrack >>,
            100, 100, "none", << >>)

\* before the first tick of an attempt
NoSample == [Capturing EXCEPT !.video = FALSE]

SampleInputs ==
    { Capturing,
      [Capturing EXCEPT !.video = FALSE],
      [Capturing EXCEPT !.paused = TRUE],
      [Capturing EXCEPT !.ended = TRUE],
      [Capturing EXCEPT !.readyState = 1],
      [Capturing EXCEPT !.srcObject = FALSE],
      [Capturing EXCEPT !.active = FALSE],
      [Capturing EXCEPT !.tracks = << >>],
      [Capturing EXCEPT !.tracks = << Track("ended", FALSE, TRUE, 100, 100) >>],
      [Capturing EXCEPT !.tracks = << Track("live", TRUE, TRUE, 100, 100) >>],
      [Capturing EXCEPT !.tracks = << Track("live", FALSE, FALSE, 100, 100) >>],
      [Capturing EXCEPT !.tracks = << Track("live", FALSE, TRUE, 0, 0) >>],
      [Capturing EXCEPT !.tracks = << Track("live", TRUE, TRUE, 0, 100) >>],
      [Capturing EXCEPT !.videoWidth = 0, !.videoHeight = 0],
      [Capturing EXCEPT !.videoWidth = 40, !.videoHeight = 50] }

RECURSIVE countPixels(_)
countPixels(frame) ==
    IF frame = << >> THEN 0 ELSE Head(frame).n + countPixels(Tail(frame))

\* what canvas.getContext, drawImage and getImageData can yield for the
\* element: no context, an exception, or the pixels of a frame of its size
DrawInputs(s) ==
    { [canvas |-> "null", frame |-> << >>],
      [canvas |-> "throws", frame |-> << >>] }
    \cup { [canvas |-> "ok", frame |-> f] :
             f \in { g \in { BrightFrame, BlackFrame, FloorFrame, GreenFrame,
                             LitTopFrame, BlackTopFrame,
                             SmallFivePercentFrame, SmallCoveredFrame } :
                        countPixels(g) = s.videoWidth * s.videoHeight } }

\* `videoTracks.filter(track => track.readyState === 'live')`
liveTracks(tracks) == SelectSeq(tracks, LAMBDA t : t.readyState = "live")

hasVideo(s) == s.video

isPlaying(s) == s.video /\ ~s.paused /\ ~s.ended /\ s.readyState >= 2

hasActiveStream(s) == s.video /\ s.srcObject /\ s.active

\* the three successive assignments to hasVideoTracks
hasVideoTracks(s) ==
    IF ~(s.video /\ s.srcObject) \/ liveTracks(s.tracks) = << >> THEN FALSE
    ELSE LET track == liveTracks(s.tracks)[1]
             first == ~track.muted /\ track.enabled
             second == IF track.width # 0 /\ track.height # 0
                       THEN track.width > 0 /\ track.height > 0
                       ELSE first
         IN  IF second /\ s.videoWidth # 0 /\ s.videoHeight # 0
             THEN s.videoWidth > 0 /\ s.videoHeight > 0
             ELSE second

isValidCapture(s) ==
    hasVideo(s) /\ isPlaying(s) /\ hasActiveStream(s) /\ hasVideoTracks(s)

\* localStorage: the items 'token' and 'user', absent in a fresh browser
Storage(token, user) == [token |-> token, user |-> user]

NoStorage == Storage(Undefined, Undefined)

\* an authService call: pc is idle, pending or settled; rejected tells
\* whether the promise was rejected
Call(pc, url, res, rejected) ==
    [pc |-> pc, url |-> url, res |-> res, rejected |-> rejected]

NoCall == Call("idle", << >>, Json(0, [error |-> ""]), FALSE)

PageInit(Ironvest) ==
    /\ window = [Ironvest |-> Ironvest, minted |-> 0, destroyed |-> {},
                 localStorage |-> NoStorage]
    /\ hook = [instanceRef |-> Null, csidRef |-> Null, uidRef |-> Null]
    /\ page = [mounted |-> TRUE, route |-> "/login", error |-> "",
               loading |-> FALSE, showBiometric |-> FALSE,
               biometricVerifying |-> FALSE]
    /\ deferred = "none"
    /\ attempt = [pc |-> "none", captureAttempts |-> 0, validCaptureCount |-> 0]
    /\ sample = NoSample
    /\ sent = << >>
    /\ call = NoCall

---------------------------------------------------------------------------
(* Initial states *)

StoreInit ==
    /\ users = {}
    /\ issued = {}
    /\ pending = EmptyBag
    /\ last = NoneYet

\* the backend alone: the browser side stays as it starts
Init == StoreInit /\ PageInit(FALSE)

---------------------------------------------------------------------------
(* Requests *)

\* POST /register: validation and User.findByEmail
register(email, password) ==
    LET body == Body(email, password, Undefined, Undefined)
        existingUser ==
            IF FalsyString(email) \/ FalsyString(password) THEN Undefined
            ELSE findByEmail(users, Val(email))
        early == registerCheck(body, existingUser)
    IN  \/ /\ early # Undefined
           /\ last' = Answered("register", Undefined, body, IdOf(existingUser),
                               Val(early))
           /\ UNCHANGED <<users, issued, pending>>
        \/ /\ early = Undefined
           /\ Inflight < MaxInflight
           /\ pending' = pending (+)
                  SetToBag({Pending("create", "register", Undefined, body, Undefined)})
           /\ UNCHANGED <<users, issued, last>>

\* POST /register: bcrypt.hash, User.create and the answer
registerCreate(r) ==
    /\ r.pc = "create"
    /\ pending' = pending (-) SetToBag({r})
    /\ LET passwordHash == bcryptHash(Val(r.body.password))
           row == NewRow(FreshId(users), Val(r.body.email), passwordHash)
           user == UserOf(row)
       IN  \/ /\ ~UniqueViolation(users, row)
              /\ users' = users \cup {row}
              /\ issued' = issued \cup {jwtSign(user.id, user.email)}
              /\ last' = Answered("register", Undefined, r.body, Some(user.id),
                                  registerRespond(user))
           \/ /\ UniqueViolation(users, row)
              /\ last' = Answered("register", Undefined, r.body, Undefined,
                                  InternalServerError)
              /\ UNCHANGED <<users, issued>>

\* POST /login
login(email, password) ==
    LET body == Body(email, password, Undefined, Undefined)
        found ==
            IF FalsyString(email) \/ FalsyString(password) THEN Undefined
            ELSE findByEmail(users, Val(email))
        res == loginRespond(body, found)
    IN  /\ last' = Answered("login", Undefined, body, IdOf(found), res)
        /\ issued' = IF res.status = 200 THEN issued \cup {res.body.token} ELSE issued
        /\ UNCHANGED <<users, pending>>

\* POST /verify-biometric
verifyBiometric(token, csid, videoValidated) ==
    LET body == Body(Undefined, Undefined, csid, videoValidated)
        user == authenticateToken(users, token)
    IN  /\ last' = Answered("verify", token, body, IdOf(user),
                       IF user = Undefined THEN Unauthorized
                       ELSE verifyBiometricRespond(body, Val(user)))
        /\ UNCHANGED <<users, issued, pending>>

\* POST /enroll/complete: authentication and validation
completeEnrollment(token, csid) ==
    LET body == Body(Undefined, Undefined, csid, Undefined)
        user == authenticateToken(users, token)
        early == completeEnrollmentCheck(body)
    IN  \/ /\ user = Undefined
           /\ last' = Answered("enroll", token, body, Undefined, Unauthorized)
           /\ UNCHANGED <<users, issued, pending>>
        \/ /\ user # Undefined
           /\ early # Undefined
           /\ last' = Answered("enroll", token, body, IdOf(user), Val(early))
           /\ UNCHANGED <<users, issued, pending>>
        \/ /\ user # Undefined
           /\ early = Undefined
           /\ Inflight < MaxInflight
           /\ pending' = pending (+)
                  SetToBag({Pending("mark", "enroll", token, body, IdOf(user))})
           /\ UNCHANGED <<users, issued, last>>

\* POST /enroll/complete: User.markEnrolled and the answer
completeEnrollmentMark(r) ==
    /\ r.pc = "mark"
    /\ pending' = pending (-) SetToBag({r})
    /\ users' = markEnrolled(users, Val(r.userId))
    /\ last' = Answered("enroll", r.token, r.body, r.userId, completeEnrollmentRespond)
    /\ UNCHANGED issued

\* GET /profile routed without authenticateToken: req.user is undefined and
\* `req.user!.id` throws into the handler's catch
getProfileUnguarded(token) ==
    LET user == authenticateToken(users, token)
    IN  /\ last' = Answered("profile", token, NoBody, IdOf(user),
                       IF user = Undefined THEN InternalServerError
                       ELSE getProfileRespond(Val(user)))
        /\ UNCHANGED <<users, issued, pending>>

\* GET /profile
getProfile(token) ==
    LET user == authenticateToken(users, token)
    IN  /\ last' = Answered("profile", token, NoBody, IdOf(user),
                       IF user = Undefined THEN Unauthorized
                       ELSE getProfileRespond(Val(user)))
        /\ UNCHANGED <<users, issued, pending>>

Next ==
    \/ \E email \in EmailInputs, password \in NewPasswordInputs :
           register(email, password) /\ UNCHANGED browser
    \/ \E r \in BagToSet(pending) : registerCreate(r) /\ UNCHANGED browser
    \/ \E email \in EmailInputs, password \in PasswordInputs :
           login(email, password) /\ UNCHANGED browser
    \/ \E token \in TokenInputs, csid \in CsidInputs,
          videoValidated \in VideoValidatedInputs :
           verifyBiometric(token, csid, videoValidated) /\ UNCHANGED browser
    \/ \E token \in TokenInputs, csid \in CsidInputs :
           completeEnrollment(token, csid) /\ UNCHANGED browser
    \/ \E r \in BagToSet(pending) : completeEnrollmentMark(r) /\ UNCHANGED browser
    \/ \E token \in TokenInputs : getProfile(token) /\ UNCHANGED browser

Spec == Init /\ [][Next]_vars

---------------------------------------------------------------------------
(* Properties *)

\* the step answers a request of this kind
Answers(kind) ==
    /\ last'.kind = kind
    /\ last' # last \/ pending' # pending

\* the step answers a request of this kind that passed authenticateToken
AnswersAuthenticated(kind) == Answers(kind) /\ last'.userId # Undefined

\* the row of the account with this id
Account(store, id) == CHOOSE r \in store : r.id = id

VideoRequired ==
    Json(400, [error |->
        "Video stream validation required. Camera must be active and capturing."])

Verified ==
    Json(200, [verified |-> TRUE, message |-> "Biometric verification successful"])

\* C1: an authenticated POST /verify-biometric is answered by the first check
\* that fails, in the order csid present, videoValidated true, csid of UUID
\* shape, account enrolled in the store; it is accepted exactly when all four
\* hold.
VerifyDecidedInOrder ==
    [][ AnswersAuthenticated("verify") =>
          LET body == last'.body
              account == Account(users, Val(last'.userId))
              res == last'.res
              hasCsid == body.csid # Undefined /\ Val(body.csid) # <<>>
              video == body.videoValidated = Some(TRUE)
              shaped == hasCsid /\ uuidRegexTest(Val(body.csid))
          IN  /\ ~hasCsid => res = Json(400, [error |-> "CSID is required"])
              /\ hasCsid /\ ~video => res = VideoRequired
              /\ hasCsid /\ video /\ ~shaped =>
                     res = Json(400, [error |-> "Invalid CSID format"])
              /\ hasCsid /\ video /\ shaped /\ ~account.enrolled =>
                     res = Json(400, [error |->
                         "User must complete enrollment before biometric verification"])
              /\ hasCsid /\ video /\ shaped /\ account.enrolled => res = Verified
              /\ res.status = 200 <=>
                     hasCsid /\ video /\ shaped /\ account.enrolled
      ]_vars

\* C1 witness: an enrolled account sent videoValidated=false with a malformed
\* csid and was told that video validation is required
VerifyVideoBeforeFormat ==
    /\ last.kind = "verify"
    /\ last.userId # Undefined
    /\ Account(users, Val(last.userId)).enrolled
    /\ last.body.videoValidated = Some(FALSE)
    /\ last.body.csid = Some(NotHex)
    /\ last.res = VideoRequired

\* C2: an authenticated POST /enroll/complete with a csid of any format is
\* answered {enrolled:true} with the account enrolled in the store; with the
\* csid missing it is answered 400 'CSID is required' and the store is as before.
EnrollCompleteEffect ==
    [][ AnswersAuthenticated("enroll") =>
          IF FalsyString(last'.body.csid)
          THEN /\ last'.res = Json(400, [error |-> "CSID is required"])
               /\ users' = users
          ELSE /\ last'.res.status = 200
               /\ last'.res.body.enrolled = TRUE
               /\ \E r \in users' : r.id = Val(last'.userId) /\ r.enrolled
      ]_vars

\* C2 witness: enrollment was completed with a csid that is no UUID
EnrolledWithMalformedCsid ==
    /\ last.kind = "enroll"
    /\ last.body.csid = Some(NotHex)
    /\ last.res.status = 200
    /\ \E r \in users : r.id = Val(last.userId) /\ r.enrolled

\* C3: a row enters the store with enrolled = false, and a row that is
\* enrolled is still there and enrolled after every step.
EnrolledOnlyRises ==
    [][ /\ \A r \in users' :
               (\A o \in users : o.id # r.id) => r.enrolled = FALSE
        /\ \A o \in users :
               o.enrolled => \E r \in users' : r.id = o.id /\ r.enrolled
      ]_vars

\* C3 witness: an account is enrolled and a later request of another kind
\* has been answered while a second account was created unenrolled
EnrolledAndLaterRequests ==
    /\ \E r \in users : r.enrolled
    /\ \E r \in users : ~r.enrolled
    /\ last.kind \in {"register", "login", "verify", "profile"}

\* C4: the enrolled flag of an account changes only in the step that answers
\* a successful enroll/complete made with that account's token.
EnrolledChangedOnlyByOwnEnrollment ==
    [][ \A o \in users, r \in users' :
            (o.id = r.id /\ o.enrolled # r.enrolled) =>
                /\ Answers("enroll")
                /\ last'.res.status = 200
                /\ last'.token # Undefined
                /\ Val(last'.token).userId = o.id
      ]_vars

\* C4 witness: of two accounts, one has just completed enrollment and the
\* other is still unenrolled
OneEnrolledOtherNot ==
    /\ last.kind = "enroll"
    /\ last.res.status = 200
    /\ \E r \in users : r.id = Val(last.userId) /\ r.enrolled
    /\ \E r \in users : r.id # Val(last.userId) /\ ~r.enrolled


\* some account has this email, letter case aside
EmailTaken(store, email) ==
    \E u \in store : toLowerCase(u.email) = toLowerCase(email)

\* the step receives a registration and runs its existence check
ReceivesRegistration(r) ==
    /\ r.kind = "register"
    /\ \/ r = last' /\ last' # last /\ pending' = pending
       \/ /\ r \in BagToSet(pending')
          /\ CopiesIn(r, pending') > CopiesIn(r, pending)

\* C5: a registration received while an account with the same email, letter
\* case aside, is in the store is answered 400 at once, with 'User already
\* exists' when it carries a password, and the store is as before.
DuplicateRegistrationRejected ==
    [][ \A r \in {last'} \cup BagToSet(pending') :
            ( /\ ReceivesRegistration(r)
              /\ ~FalsyString(r.body.email)
              /\ EmailTaken(users, Val(r.body.email)) ) =>
                /\ r = last'
                /\ r.res.status = 400
                /\ ~FalsyString(r.body.password) =>
                       r.res = Json(400, [error |-> "User already exists"])
                /\ users' = users
      ]_vars

\* C5 witness: 'Ab' was refused because 'ab' is registered
DuplicateInOtherCaseRefused ==
    /\ last.kind = "register"
    /\ last.body.email = Some(<<"A", "b">>)
    /\ last.res = Json(400, [error |-> "User already exists"])
    /\ \E u \in users : u.email = <<"a", "b">>

\* C6: no two rows have the same email once case is folded, and every stored
\* email is in lower case.
EmailsUniqueAndLowerCase ==
    \A u \in users :
        /\ u.email = toLowerCase(u.email)
        /\ \A v \in users :
               toLowerCase(u.email) = toLowerCase(v.email) => u = v

\* C6 witness: two registrations of one email ran their existence checks
\* before either insert; the second insert was refused by the table
ConcurrentDuplicateRefused ==
    /\ last.kind = "register"
    /\ last.res.status = 500
    /\ EmailTaken(users, Val(last.body.email))

InvalidCredentials == Json(401, [error |-> "Invalid credentials"])

\* C7: a login is answered 200 only when its email is that of an account and
\* its password matches that account's hash; with both fields present, an
\* unknown email and a wrong password get the same 401 'Invalid credentials'.
LoginUniformFailure ==
    [][ Answers("login") =>
          LET body == last'.body
              res == last'.res
              complete == ~FalsyString(body.email) /\ ~FalsyString(body.password)
              known == complete /\ EmailTaken(users, Val(body.email))
          IN  /\ res.status = 200 =>
                     /\ known
                     /\ \E u \in users :
                            /\ u.email = toLowerCase(Val(body.email))
                            /\ bcryptCompare(Val(body.password), u.password_hash)
                            /\ res.body.user.id = u.id
                            /\ res.body.token = jwtSign(u.id, u.email)
              /\ complete /\ ~known => res = InvalidCredentials
              /\ ( /\ known
                   /\ \A u \in users :
                          u.email = toLowerCase(Val(body.email)) =>
                              ~bcryptCompare(Val(body.password), u.password_hash) )
                     => res = InvalidCredentials
      ]_vars

\* C7 witness: a login with a registered email and a wrong password was
\* answered 401 'Invalid credentials'
WrongPasswordRefused ==
    /\ last.kind = "login"
    /\ last.res = InvalidCredentials
    /\ ~FalsyString(last.body.email)
    /\ EmailTaken(users, Val(last.body.email))

\* C8: two authenticated verifications answered one after the other with the
\* same csid and videoValidated, by accounts (the same or not) with the same
\* enrolled flag, get the same answer; a UUID-shaped csid is accepted from an
\* enrolled account whatever csid the preceding enrollment carried; the store
\* keeps no csid.
VerifyHasNoMemory ==
    [][ /\ ( /\ last.kind = "verify"
             /\ last.userId # Undefined
             /\ AnswersAuthenticated("verify")
             /\ last'.body = last.body
             /\ Account(users, Val(last'.userId)).enrolled
                    = Account(users, Val(last.userId)).enrolled )
               => last'.res = last.res
        /\ ( /\ last.kind = "enroll"
             /\ AnswersAuthenticated("verify")
             /\ last'.body.videoValidated = Some(TRUE)
             /\ ~FalsyString(last'.body.csid)
             /\ uuidRegexTest(Val(last'.body.csid))
             /\ Account(users, Val(last'.userId)).enrolled )
               => last'.res = Verified
        /\ \A r \in users' :
               DOMAIN r = {"id", "email", "password_hash", "enrolled"}
      ]_vars

\* C8 witness: a csid was accepted for the second account while the first
\* account is completing an enrollment with that same csid
SameCsidAcceptedElsewhere ==
    /\ last.kind = "verify"
    /\ last.res = Verified
    /\ last.userId = Some(2)
    /\ \E p \in BagToSet(pending) :
           p.pc = "mark" /\ p.body.csid = last.body.csid /\ p.userId = Some(1)

ExampleSequence ==
    [][ /\ (Answers("register") /\ last'.res.status = 201) =>
               /\ last'.res.body.user.enrolled = FALSE
               /\ authenticateToken(users', Some(last'.res.body.token)) # Undefined
               /\ Val(authenticateToken(users', Some(last'.res.body.token))).id
                      = last'.res.body.user.id
        /\ ( /\ AnswersAuthenticated("enroll")
             /\ ~FalsyString(last'.body.csid)
             /\ uuidRegexTest(Val(last'.body.csid)) ) =>
               /\ last'.res.status = 200
               /\ last'.res.body.enrolled = TRUE
               /\ Account(users', Val(last'.userId)).enrolled
        /\ ( /\ Answers("login")
             /\ last'.res.status = 200
             /\ Account(users, last'.res.body.user.id).enrolled ) =>
               last'.res.body.user.enrolled = TRUE
        /\ ( /\ AnswersAuthenticated("verify")
             /\ Account(users, Val(last'.userId)).enrolled
             /\ ~FalsyString(last'.body.csid)
             /\ uuidRegexTest(Val(last'.body.csid)) ) =>
               /\ last'.body.videoValidated = Some(TRUE) => last'.res = Verified
               /\ last'.body.videoValidated = Some(FALSE) => last'.res = VideoRequired
      ]_vars

\* C10 witness: after registration and enrollment, a login has answered
\* user.enrolled = true
LoginAfterEnrollment ==
    /\ last.kind = "login"
    /\ last.res.status = 200
    /\ last.res.body.user.enrolled = TRUE

\* C11: a verify-biometric, enroll/complete or profile request whose
\* Authorization header carries no token, or a token that authenticateToken
\* does not resolve to an account, is answered 401 and changes neither the
\* user store nor the issued tokens nor the requests in progress.
BearerRequired ==
    [][ ( /\ last' # last
          /\ last'.kind \in {"verify", "enroll", "profile"}
          /\ authenticateToken(users, last'.token) = Undefined ) =>
            /\ last'.res = Unauthorized
            /\ last'.res.status = 401
            /\ last'.userId = Undefined
            /\ users' = users
            /\ issued' = issued
            /\ pending' = pending
      ]_vars

\* C11 witness: with an account registered, enroll/complete carrying a forged
\* token and a well-formed csid has been answered 401, nobody being enrolled
ForgedTokenRefused ==
    /\ users # {}
    /\ last.kind = "enroll"
    /\ last.token = Some(ForgedToken)
    /\ last.body.csid = Some(UuidMixed)
    /\ last.res.status = 401
    /\ \A r \in users : ~r.enrolled


---------------------------------------------------------------------------
(* The final validation once the streak is reached *)

NonBlack(run) ==
    run.r > brightnessFloor \/ run.g > brightnessFloor \/ run.b > brightnessFloor

\* nonBlackPixels after the loop over the first `pixels` pixels of the data
RECURSIVE nonBlackPixels(_, _)
nonBlackPixels(frame, pixels) ==
    IF frame = << >> \/ pixels = 0 THEN 0
    ELSE LET taken == Min(Head(frame).n, pixels)
         IN  (IF NonBlack(Head(frame)) THEN taken ELSE 0)
                 + nonBlackPixels(Tail(frame), pixels - taken)

\* `Math.min(data.length, 10000)`, data holding four bytes per pixel
sampleSize(s) == Min(4 * s.videoWidth * s.videoHeight, sampleLimit)

\* as appearsCovered, but a frame with exactly 5% of the sampled pixels
\* non-black counts as covered
appearsCoveredInclusive(s) ==
    100 * nonBlackPixels(s.frame, sampleSize(s) \div 4)
        <= nonBlackPercent * (sampleSize(s) \div 4)

\* `nonBlackRatio < 0.05` with nonBlackRatio = nonBlackPixels / (sampleSize / 4)
appearsCovered(s) ==
    100 * nonBlackPixels(s.frame, sampleSize(s) \div 4)
        < nonBlackPercent * (sampleSize(s) \div 4)

ContainerLost == "Camera container lost. Please try again."

NotCapturing ==
    "Camera is not capturing video properly. Please ensure camera is uncovered, has proper lighting, and your face is visible, then try again."

StoppedCapturing == "Camera stopped capturing. Please try again."

NotProducing ==
    "Camera is not producing video. Please ensure camera is uncovered and try again."

TrackNotActive ==
    "Camera track is not active. Please ensure camera is uncovered and try again."

Covered ==
    "Camera appears to be covered or not capturing properly. Please ensure camera is uncovered and your face is visible, then try again."

ValidationFailed == "Unable to validate camera stream. Please try again."

NoSessionId == "Session ID not found. Please try again."

StartFailed == "Failed to start biometric verification. Please try again."

InitFailed == "Failed to initialize biometric verification. Please try again."

VerificationFailed == "Biometric verification failed."

LoginFailed == "Login failed. Please try again."

\* the checks between clearInterval and the canvas: the message of the first
\* one that fails, '' when all pass
streamValidation(s) ==
    IF ~hasVideo(s) \/ ~isPlaying(s) \/ ~hasActiveStream(s) \/ ~hasVideoTracks(s)
    THEN StoppedCapturing
    ELSE IF s.videoWidth = 0 \/ s.videoHeight = 0
    THEN NotProducing
    ELSE IF s.srcObject /\ ( \/ liveTracks(s.tracks) = << >>
                             \/ liveTracks(s.tracks)[1].muted
                             \/ ~liveTracks(s.tracks)[1].enabled )
    THEN TrackNotActive
    ELSE ""

\* the canvas check of the frame drawn and the csid check before the request
contentValidation(s, csid) ==
    IF s.srcObject /\ s.canvas = "throws"
    THEN ValidationFailed
    ELSE IF s.srcObject /\ s.canvas = "ok" /\ appearsCovered(s)
    THEN Covered
    ELSE IF csid = Null
    THEN NoSessionId
    ELSE ""

---------------------------------------------------------------------------
(* useActionID *)

\* `getCsid: () => csidRef.current`
getCsid == hook.csidRef

\* stop() and the unmount cleanup, on the hook: the reference is cleared
\* whether or not stopBiometric threw
stop == [hook EXCEPT !.instanceRef = Null]

\* stop() and the unmount cleanup, on the SDK: destroy() is reached unless
\* stopBiometric threw
stopSdk(throws) ==
    IF hook.instanceRef = Null \/ throws THEN window
    ELSE [window EXCEPT !.destroyed = @ \cup {hook.instanceRef}]

\* the effect cleanup of useActionID, run when the mounted page goes away
cleanup == IF page.mounted THEN stop ELSE hook

cleanupSdk(throws) == IF page.mounted THEN stopSdk(throws) ELSE window

\* whether the SDK call can be made to throw in this state
Throws == IF hook.instanceRef = Null THEN {FALSE} ELSE BOOLEAN

---------------------------------------------------------------------------
(* services/api.ts, services/authService.ts and the guarded routes *)

\* String.prototype.includes
includes(s, part) ==
    \E i \in 0..(Len(s) - Len(part)) : SubSeq(s, i + 1, i + Len(part)) = part

AuthUrl(path) == <<"/", "a", "u", "t", "h">> \o path

RegisterUrl == AuthUrl(<<"/", "r", "e", "g", "i", "s", "t", "e", "r">>)

LoginUrl == AuthUrl(<<"/", "l", "o", "g", "i", "n">>)

VerifyBiometricPart ==
    <<"/", "v", "e", "r", "i", "f", "y", "-",
      "b", "i", "o", "m", "e", "t", "r", "i", "c">>

VerifyBiometricUrl == AuthUrl(VerifyBiometricPart)

EnrollCompletePart ==
    <<"/", "e", "n", "r", "o", "l", "l", "/",
      "c", "o", "m", "p", "l", "e", "t", "e">>

EnrollCompleteUrl == AuthUrl(EnrollCompletePart)

ProfileUrl == AuthUrl(<<"/", "p", "r", "o", "f", "i", "l", "e">>)

\* as isVerificationEndpoint, but no endpoint is exempt
isVerificationEndpointNever(url) == FALSE

isVerificationEndpoint(url) ==
    includes(url, VerifyBiometricPart) \/ includes(url, EnrollCompletePart)

\* axios resolves the promise for a 2xx status and rejects it otherwise, the
\* rejection passing through the response interceptor
resolves(res) == res.status \in 200..299

\* the response interceptor takes the branch that signs the user out
signsOut(url, res) == res.status = 401 /\ ~isVerificationEndpoint(url)

\* the response interceptor, on localStorage; a 2xx response passes through
interceptor(url, res, localStorage) ==
    IF signsOut(url, res) THEN NoStorage ELSE localStorage

\* authService.login and authService.register, on localStorage. The item
\* 'user' is the JSON text of response.data.user; the model keeps the object
\* that getCurrentUser parses it back to.
storeSession(url, res, localStorage) ==
    IF ~resolves(res) THEN interceptor(url, res, localStorage)
    ELSE IF "token" \in DOMAIN res.body
    THEN Storage(Some(res.body.token), Some(res.body.user))
    ELSE localStorage

\* authService.completeEnrollment, on localStorage: a stored user becomes
\* enrolled when the response says so
enrollSession(res, localStorage) ==
    IF ~resolves(res) THEN interceptor(EnrollCompleteUrl, res, localStorage)
    ELSE IF res.body.enrolled /\ localStorage.user # Undefined
    THEN [localStorage EXCEPT
              !.user = Some([Val(localStorage.user) EXCEPT !.enrolled = TRUE])]
    ELSE localStorage

\* authService.isAuthenticated
isAuthenticated(localStorage) == localStorage.token # Undefined

\* authService.getCurrentUser()?.enrolled
storedEnrolled(localStorage) ==
    localStorage.user # Undefined /\ Val(localStorage.user).enrolled

\* ProtectedRoute and the mount effect of Home: the path, or /login
ProtectedRoute(path, localStorage) ==
    IF isAuthenticated(localStorage) THEN path ELSE "/login"

\* the mount effect of Login: where a freshly mounted login page ends up
loginMounted(localStorage) ==
    IF ~isAuthenticated(localStorage) THEN "/login"
    ELSE IF storedEnrolled(localStorage) THEN ProtectedRoute("/home", localStorage)
    ELSE ProtectedRoute("/enroll", localStorage)

\* the route shown once the document is loaded at path
landing(path, localStorage) ==
    IF path = "/login" THEN loginMounted(localStorage)
    ELSE ProtectedRoute(path, localStorage)

---------------------------------------------------------------------------
(* The login page *)

\* the state of a Login component that has just mounted
FreshLogin ==
    [mounted |-> TRUE, route |-> "/login", error |-> "", loading |-> FALSE,
     showBiometric |-> FALSE, biometricVerifying |-> FALSE]

\* the refs of a useActionID hook that has just mounted
FreshHook == [instanceRef |-> Null, csidRef |-> Null, uidRef |-> Null]

\* setError, setLoading, setShowBiometric, setBiometricVerifying: state
\* updates of an unmounted component are dropped
setState(new) == IF page.mounted THEN new ELSE page

\* cameraContainerRef.current: the div exists while the biometric screen is
\* rendered
container == page.mounted /\ page.showBiometric

Attempt(pc, captureAttempts, validCaptureCount) ==
    [pc |-> pc, captureAttempts |-> captureAttempts,
     validCaptureCount |-> validCaptureCount]

\* a request that fails without a response
NoResponse == Json(0, [error |-> ""])

\* the accounts the pages are used with: two enrolled, one not yet
Accounts ==
    { UserOf(NewRowEnrolled(1, <<"a", "b">>, bcryptHash(<<"p">>))),
      UserOf(NewRowEnrolled(2, <<"b", "a">>, bcryptHash(<<"p">>))),
      UserOf(NewRow(3, <<"b", "b">>, bcryptHash(<<"p">>))) }

\* the answers POST /login gives the page: an enrolled account, an account
\* not enrolled, a refusal, and no answer at all
LoginAnswers ==
    { loginRespond(Body(Some(u.email), Some(<<"p">>), Undefined, Undefined),
                   Some(u)) : u \in Accounts }
      \cup { loginRespond(Body(Some(<<"a", "b">>), Some(<<"q">>),
                               Undefined, Undefined), Undefined),
             NoResponse }

\* the answers POST /verify-biometric gives to a minted csid with
\* videoValidated = true, and no answer at all
VerifyAnswers ==
    { verifyBiometricRespond(
          Body(Undefined, Undefined, Some(UuidMixed), Some(TRUE)),
          [enrolled |-> e]) : e \in BOOLEAN }
      \cup { Unauthorized, NoResponse }

\* the form's onSubmit up to `await authService.login`
handleLogin ==
    /\ page.mounted /\ ~page.showBiometric /\ ~page.loading
    /\ deferred = "none"
    /\ attempt.pc \notin {"wait", "sampling", "verify"}
    /\ window.minted < MaxInit
    /\ page' = [page EXCEPT !.error = "", !.loading = TRUE]
    /\ deferred' = "login"
    /\ UNCHANGED <<window, hook, attempt, sample, sent>>

\* handleLogin after the answer: the biometric screen and the initialize
\* timer, navigate('/enroll'), or the error
handleLoginAnswer(res, throws) ==
    /\ deferred = "login"
    /\ LET localStorage == storeSession(LoginUrl, res, window.localStorage)
       IN
       IF res.status = 200 /\ res.body.user.enrolled
       THEN /\ page' = setState([page EXCEPT !.loading = FALSE,
                                              !.showBiometric = TRUE])
            /\ deferred' = "initialize"
            /\ window' = [window EXCEPT !.localStorage = localStorage]
            /\ UNCHANGED hook
       ELSE IF res.status = 200
       THEN /\ page' = [page EXCEPT !.mounted = FALSE,
                            !.route = ProtectedRoute("/enroll", localStorage)]
            /\ hook' = cleanup
            /\ window' = [cleanupSdk(throws) EXCEPT
                              !.localStorage = localStorage]
            /\ deferred' = "none"
       ELSE IF signsOut(LoginUrl, res)
       THEN \* window.location.href = '/login': the document is loaded anew
            /\ page' = FreshLogin
            /\ hook' = FreshHook
            /\ window' = [window EXCEPT !.localStorage = localStorage]
            /\ deferred' = "none"
       ELSE /\ page' = setState([page EXCEPT
                   !.loading = FALSE,
                   !.error = IF res.status = 0 THEN LoginFailed
                             ELSE res.body.error])
            /\ deferred' = "none"
            /\ window' = [window EXCEPT !.localStorage = localStorage]
            /\ UNCHANGED hook
    /\ UNCHANGED <<attempt, sample, sent>>

\* as initialized, but a live instance is never noticed
initializedNever == FALSE

\* `if (instanceRef.current)` at the head of initialize
initialized == hook.instanceRef # Null

\* the setTimeout callback of handleLogin: initialize(user.id) and its catch;
\* user is the object authService.login has just stored
initialize(throws) ==
    /\ deferred = "initialize"
    /\ deferred' = "none"
    /\ IF initialized
       THEN UNCHANGED <<window, hook, page>>
       ELSE IF ~window.Ironvest
       THEN /\ page' = setState([page EXCEPT !.error = InitFailed,
                                              !.showBiometric = FALSE])
            /\ UNCHANGED <<window, hook>>
       ELSE LET csid == window.minted + 1
                uid == Val(window.localStorage.user).id
            IN  /\ window' = [window EXCEPT !.minted = csid]
                /\ IF throws
                   THEN /\ hook' = [instanceRef |-> Null, csidRef |-> csid,
                                    uidRef |-> uid]
                        /\ page' = setState([page EXCEPT !.error = InitFailed,
                                                          !.showBiometric = FALSE])
                   ELSE /\ hook' = [instanceRef |-> csid, csidRef |-> csid,
                                    uidRef |-> uid]
                        /\ page' = page
    /\ UNCHANGED <<attempt, sample, sent>>

\* the Start button up to the 300 ms wait
handleBiometricVerification ==
    /\ page.mounted /\ page.showBiometric /\ ~page.biometricVerifying
    /\ IF ~container
       THEN /\ page' = [page EXCEPT !.error =
                            "Camera container not ready. Please refresh the page."]
            /\ UNCHANGED attempt
       ELSE /\ page' = [page EXCEPT !.biometricVerifying = TRUE, !.error = ""]
            /\ attempt' = [attempt EXCEPT !.pc = "wait"]
    /\ sample' = NoSample
    /\ UNCHANGED <<window, hook, deferred, sent>>

\* as startBiometric, the counters being kept from the attempt before
startBiometricResumed(throws) ==
    /\ attempt.pc = "wait"
    /\ deferred = "none"
    /\ IF hook.instanceRef = Null \/ throws
       THEN /\ page' = setState([page EXCEPT !.error = StartFailed,
                                              !.biometricVerifying = FALSE])
            /\ attempt' = [attempt EXCEPT !.pc = "ended"]
       ELSE /\ attempt' = [attempt EXCEPT !.pc = "sampling"]
            /\ page' = page
    /\ UNCHANGED <<window, hook, deferred, sample, sent>>

\* handleBiometricVerification after the wait: startBiometric, the counters
\* and setInterval, or the outer catch
startBiometric(throws) ==
    /\ attempt.pc = "wait"
    /\ deferred = "none"
    /\ IF hook.instanceRef = Null \/ throws
       THEN /\ page' = setState([page EXCEPT !.error = StartFailed,
                                              !.biometricVerifying = FALSE])
            /\ attempt' = [attempt EXCEPT !.pc = "ended"]
       ELSE /\ attempt' = Attempt("sampling", 0, 0)
            /\ page' = page
    /\ UNCHANGED <<window, hook, deferred, sample, sent>>

\* as countSample, but an invalid sample leaves the counter as it is
countSampleKeeping(s, validCaptureCount) ==
    IF isValidCapture(s) THEN validCaptureCount + 1 ELSE validCaptureCount

\* `if (isValidCapture) validCaptureCount++; else validCaptureCount = 0;`
countSample(s, validCaptureCount) ==
    IF isValidCapture(s) THEN validCaptureCount + 1 ELSE 0

\* as budgetExhausted, whatever the streak
budgetExhaustedRegardless(captureAttempts, validCaptureCount) ==
    captureAttempts >= maxAttempts

\* as budgetExhausted, one tick later
budgetExhaustedLate(captureAttempts, validCaptureCount) ==
    /\ captureAttempts > maxAttempts
    /\ validCaptureCount < requiredValidCaptures

\* `captureAttempts >= maxAttempts && validCaptureCount < requiredValidCaptures`
budgetExhausted(captureAttempts, validCaptureCount) ==
    /\ captureAttempts >= maxAttempts
    /\ validCaptureCount < requiredValidCaptures

\* the attempt ends in failure: clearInterval, setError, stop(),
\* setBiometricVerifying(false)
fail(attempts, count, message, throws) ==
    /\ attempt' = Attempt("ended", attempts, count)
    /\ page' = setState([page EXCEPT !.error = message,
                                      !.biometricVerifying = FALSE])
    /\ hook' = stop
    /\ window' = stopSdk(throws)
    /\ sent' = sent

\* one tick of the interval, up to `await authService.verifyBiometric`
checkCapture(s, throws) ==
    /\ attempt.pc = "sampling"
    /\ deferred' = deferred
    /\ LET attempts == attempt.captureAttempts + 1
           counted == countSample(s, attempt.validCaptureCount)
           count == IF counted > 0 /\ ~isValidCapture(s) THEN 0 ELSE counted
       IN  IF ~container
           THEN /\ fail(attempts, attempt.validCaptureCount, ContainerLost, throws)
                /\ sample' = NoSample
           ELSE /\ IF count >= requiredValidCaptures /\ streamValidation(s) = ""
                   THEN \E drawn \in DrawInputs(s) :
                            sample' = [s EXCEPT !.canvas = drawn.canvas,
                                                !.frame = drawn.frame]
                   ELSE sample' = s
                /\ IF budgetExhausted(attempts, counted)
                   THEN fail(attempts, counted, NotCapturing, throws)
                   ELSE IF count < requiredValidCaptures
                   THEN /\ attempt' = Attempt("sampling", attempts, count)
                        /\ UNCHANGED <<window, hook, page, sent>>
                   ELSE IF streamValidation(s) # ""
                   THEN fail(attempts, count, streamValidation(s), throws)
                   ELSE IF contentValidation(sample', getCsid) # ""
                   THEN fail(attempts, count,
                             contentValidation(sample', getCsid), throws)
                   ELSE /\ attempt' = Attempt("verify", attempts, count)
                        /\ hook' = stop
                        /\ window' = stopSdk(throws)
                        /\ sent' = Append(sent, [csid |-> getCsid,
                                                 actionID |-> "login",
                                                 videoValidated |-> TRUE])
                        /\ page' = page

\* the tick after the answer of verify-biometric
verifyBiometricAnswer(res, throws) ==
    /\ attempt.pc = "verify"
    /\ IF res.status = 200 /\ res.body.verified
       THEN /\ attempt' = [attempt EXCEPT !.pc = "verified"]
            /\ page' = [page EXCEPT !.mounted = FALSE, !.route = "/home"]
            /\ hook' = cleanup
            /\ window' = cleanupSdk(throws)
       ELSE /\ attempt' = [attempt EXCEPT !.pc = "ended"]
            /\ page' = setState([page EXCEPT
                   !.error = IF res.status = 0 THEN VerificationFailed
                             ELSE res.body.error,
                   !.biometricVerifying = FALSE])
            /\ UNCHANGED <<window, hook>>
    /\ UNCHANGED <<deferred, sample, sent>>

\* as handleCancelBiometric, the Cancel button staying enabled during an
\* attempt
handleCancelBiometricAnytime(throws) ==
    /\ page.mounted /\ page.showBiometric
    /\ hook' = stop
    /\ window' = stopSdk(throws)
    /\ page' = [page EXCEPT !.showBiometric = FALSE,
                            !.biometricVerifying = FALSE, !.error = ""]
    /\ UNCHANGED <<deferred, attempt, sample, sent>>

\* the Cancel button, disabled while biometricVerifying
handleCancelBiometric(throws) ==
    /\ page.mounted /\ page.showBiometric /\ ~page.biometricVerifying
    /\ hook' = stop
    /\ window' = stopSdk(throws)
    /\ page' = [page EXCEPT !.showBiometric = FALSE,
                            !.biometricVerifying = FALSE, !.error = ""]
    /\ UNCHANGED <<deferred, attempt, sample, sent>>

\* the user leaves the login page: the component unmounts and the cleanup of
\* useActionID runs
unmount(throws) ==
    /\ page.mounted
    /\ page' = [page EXCEPT !.mounted = FALSE, !.route = "elsewhere"]
    /\ hook' = cleanup
    /\ window' = cleanupSdk(throws)
    /\ UNCHANGED <<deferred, attempt, sample, sent>>

\* the user loads the app anew at a path: the timers and requests of the old
\* document are gone, an attempt under way stops where it is, and the route
\* guards decide what is shown
load(path) ==
    /\ LET route == landing(path, window.localStorage)
       IN  page' = IF route = "/login" THEN FreshLogin
                   ELSE [page EXCEPT !.mounted = FALSE, !.route = route]
    /\ hook' = FreshHook
    /\ deferred' = "none"
    /\ attempt' = IF attempt.pc \in {"wait", "sampling", "verify"}
                  THEN [attempt EXCEPT !.pc = "none"] ELSE attempt
    /\ UNCHANGED <<window, sample, sent>>

Paths == {"/login", "/home"}

LoginInit == StoreInit /\ \E Ironvest \in BOOLEAN : PageInit(Ironvest)

LoginNext ==
    \/ handleLogin /\ UNCHANGED <<backend, call>>
    \/ \E res \in LoginAnswers, throws \in Throws :
           handleLoginAnswer(res, throws) /\ UNCHANGED <<backend, call>>
    \/ \E throws \in BOOLEAN : initialize(throws) /\ UNCHANGED <<backend, call>>
    \/ handleBiometricVerification /\ UNCHANGED <<backend, call>>
    \/ \E throws \in BOOLEAN : startBiometric(throws) /\ UNCHANGED <<backend, call>>
    \/ \E s \in SampleInputs, throws \in Throws :
           checkCapture(s, throws) /\ UNCHANGED <<backend, call>>
    \/ \E res \in VerifyAnswers, throws \in Throws :
           verifyBiometricAnswer(res, throws) /\ UNCHANGED <<backend, call>>
    \/ \E throws \in Throws : handleCancelBiometric(throws) /\ UNCHANGED <<backend, call>>
    \/ \E throws \in Throws : unmount(throws) /\ UNCHANGED <<backend, call>>
    \/ \E path \in Paths : load(path) /\ UNCHANGED <<backend, call>>

LoginSpec == LoginInit /\ [][LoginNext]_vars


---------------------------------------------------------------------------
(* Properties of the login page *)

\* the step is a tick of the sampler
Ticks ==
    /\ attempt.pc = "sampling"
    /\ attempt'.captureAttempts = attempt.captureAttempts + 1

\* the step is a tick that found the container and evaluated a sample
Samples == Ticks /\ container

\* the step begins the sampling of an attempt
StartsSampling == attempt.pc = "wait" /\ attempt'.pc = "sampling"

\* the messages of the final validation
FinalReasons ==
    { StoppedCapturing, NotProducing, TrackNotActive, ValidationFailed,
      Covered, NoSessionId }

\* the tick cleared the interval and went on to the final validation
StreakCheckPassed ==
    \/ attempt'.pc = "verify"
    \/ attempt'.pc = "ended" /\ page'.error \in FinalReasons

\* C12: the counter starts at zero with the sampling, and after every sample
\* it is one more than before when the sample is valid and zero when it is
\* not, which makes it the number of consecutive valid samples ending at that
\* sample.
CounterIsStreak ==
    [][ /\ StartsSampling => attempt'.validCaptureCount = 0
        /\ Samples =>
             attempt'.validCaptureCount =
                 IF isValidCapture(sample') THEN attempt.validCaptureCount + 1
                 ELSE 0
      ]_vars

\* C12 witness: a streak of five was lost to an invalid sample
StreakLost ==
    /\ attempt.pc = "sampling"
    /\ attempt.captureAttempts = 6
    /\ attempt.validCaptureCount = 0
    /\ sample.video /\ sample.paused

\* C13: a tick passes the streak check exactly when it brings the counter to
\* 20, whatever the number of samples before the streak; the counter never
\* exceeds 20.
StreakNecessaryAndSufficient ==
    [][ Samples =>
          /\ attempt'.validCaptureCount <= requiredValidCaptures
          /\ StreakCheckPassed <=>
                 attempt'.validCaptureCount = requiredValidCaptures
      ]_vars

\* C13 witness: the streak was completed by the last sample of the budget,
\* ten samples having preceded it, and the request has been sent
StreakAtLastSample ==
    /\ attempt.pc = "verify"
    /\ attempt.captureAttempts = maxAttempts
    /\ attempt.validCaptureCount = requiredValidCaptures
    /\ Len(sent) = 1

\* C14: an attempt counts at most 30 ticks; the 30th sample ends the sampling,
\* with the streak reached or with the 'not capturing' failure; once the
\* sampling has ended the counters and the sample stay as they are until
\* another attempt begins.
AttemptWithinBudget ==
    [][ /\ attempt'.captureAttempts <= maxAttempts
        /\ (Samples /\ attempt'.captureAttempts = maxAttempts) =>
               /\ attempt'.pc # "sampling"
               /\ \/ StreakCheckPassed
                  \/ attempt'.pc = "ended" /\ page'.error = NotCapturing
        /\ attempt.pc \in {"ended", "verify", "verified"} =>
               /\ attempt'.captureAttempts = attempt.captureAttempts
               /\ attempt'.validCaptureCount = attempt.validCaptureCount
               /\ sample' \in {sample, NoSample}
      ]_vars

\* C14 witness: the budget ran out on a valid sample, one short of the streak
BudgetExhaustedOnValidSample ==
    /\ attempt.pc = "ended"
    /\ attempt.captureAttempts = maxAttempts
    /\ attempt.validCaptureCount = requiredValidCaptures - 1
    /\ page.error = NotCapturing
    /\ isValidCapture(sample)

\* C15: a sample that raises the counter has a video element that is playing
\* with readyState >= 2, an active stream, and a live video track that is
\* enabled, not muted and of non-zero negotiated width and height.
ValidOnlyWithAllSignals ==
    [][ (Samples /\ attempt'.validCaptureCount = attempt.validCaptureCount + 1) =>
          /\ sample'.video
          /\ ~sample'.paused /\ ~sample'.ended /\ sample'.readyState >= 2
          /\ sample'.srcObject /\ sample'.active
          /\ \E i \in DOMAIN sample'.tracks :
                 /\ sample'.tracks[i].readyState = "live"
                 /\ sample'.tracks[i].enabled
                 /\ ~sample'.tracks[i].muted
                 /\ sample'.tracks[i].width > 0
                 /\ sample'.tracks[i].height > 0
      ]_vars

\* the frame has this share, in percent, of its pixels at or below the floor
\* on all three channels
DarkShareAtLeast(frame, percent) ==
    100 * (countPixels(frame) - nonBlackPixels(frame, countPixels(frame)))
        >= percent * countPixels(frame)

\* the pixels the content check looks at: the first 2500, or all of a
\* smaller frame
sampledPixels(frame) == Min(countPixels(frame), sampleLimit \div 4)

\* the tick completed the streak and drew this frame for the content check
DrawsFrame ==
    /\ Samples
    /\ attempt'.validCaptureCount = requiredValidCaptures
    /\ sample'.canvas = "ok"

\* the tick ended the attempt as 'covered camera' without a request
FailsAsCovered ==
    /\ attempt'.pc = "ended"
    /\ page'.error = Covered
    /\ sent' = sent

FailureReleasesEverything ==
    [][ (attempt.pc \in {"wait", "sampling", "verify"} /\ attempt'.pc = "ended") =>
          /\ hook'.instanceRef = Null
          /\ page'.mounted => page'.error # "" /\ ~page'.biometricVerifying
      ]_vars

\* C18: while a failed attempt is the latest one nothing is sampled and
\* nothing is sent, and it is left only by the Start button; the sampling of
\* an attempt begins with both counters at zero.
NoAutomaticRetry ==
    [][ /\ attempt.pc = "ended" =>
              /\ sent' = sent
              /\ attempt'.captureAttempts = attempt.captureAttempts
              /\ attempt'.validCaptureCount = attempt.validCaptureCount
              /\ sample' \in {sample, NoSample}
              /\ attempt'.pc \in {"ended", "wait"}
              /\ attempt'.pc = "wait" =>
                     /\ page.mounted /\ page.showBiometric
                     /\ ~page.biometricVerifying /\ page'.biometricVerifying
        /\ StartsSampling =>
              /\ attempt'.captureAttempts = 0
              /\ attempt'.validCaptureCount = 0
      ]_vars

\* C18 witness: after a request that was refused, the user has logged in
\* again and started an attempt, which begins at zero
FreshAttemptAfterFailure ==
    /\ attempt.pc = "sampling"
    /\ attempt.captureAttempts = 0
    /\ attempt.validCaptureCount = 0
    /\ Len(sent) = 1

\* the step is the Cancel button
Cancels ==
    /\ page.mounted /\ page.showBiometric
    /\ page'.mounted /\ ~page'.showBiometric /\ page'.error = ""

\* the step takes the mounted page away
Unmounts == page.mounted /\ ~page'.mounted

\* C19: Cancel and unmount leave no live instance in the same step; on a
\* cancelled screen no attempt is sampling or awaiting its answer; once the
\* page is unmounted, and until a new document mounts a new page, no sample
\* is counted, no error message is set and no request is sent.
Cancellable ==
    [][ /\ (Cancels \/ Unmounts) => hook'.instanceRef = Null
        /\ (page'.mounted /\ ~page'.showBiometric) =>
               attempt'.pc \notin {"sampling", "verify"}
        /\ (~page.mounted /\ ~page'.mounted) =>
               /\ Ticks => attempt'.validCaptureCount = attempt.validCaptureCount
               /\ sample' \in {sample, NoSample}
               /\ page'.error = page.error
               /\ sent' = sent
      ]_vars

\* C19 witness: the page was unmounted in the middle of a streak and the next
\* tick has ended the attempt
UnmountedMidStreak ==
    /\ ~page.mounted
    /\ page.route = "elsewhere"
    /\ attempt.pc = "ended"
    /\ attempt.validCaptureCount > 0
    /\ page.error = ""
    /\ sent = << >>

\* C20: initialize mints a csid not used before; stop() discards it, so that
\* getCsid no longer returns it; no csid is sent twice.
CsidUsedOnce ==
    [][ /\ hook'.csidRef # hook.csidRef =>
               /\ window'.minted = window.minted + 1
               /\ hook'.csidRef = window'.minted
        /\ (hook.instanceRef # Null /\ hook'.instanceRef = Null) =>
               hook'.csidRef # hook.csidRef
        /\ sent' # sent =>
               \A i \in DOMAIN sent : sent[i].csid # sent'[Len(sent')].csid
      ]_vars

\* C21: /home comes to be shown to an enrolled account only by the step that
\* receives verified = true for the attempt of the current login.
HomeOnlyAfterVerification ==
    [][ ( /\ page.route # "/home" /\ page'.route = "/home"
          /\ storedEnrolled(window'.localStorage) ) =>
            /\ attempt.pc = "verify"
            /\ attempt'.pc = "verified"
      ]_vars

\* C23: the instance a hook holds has not been destroyed; while the hook
\* holds an instance no step creates another one or changes the csid or the
\* uid, whatever is called; a new instance appears only in a hook that holds
\* none, and it carries a csid minted in that step.
SdkSingleton ==
    [][ /\ hook'.instanceRef # Null => hook'.instanceRef \notin window'.destroyed
        /\ hook.instanceRef # Null =>
               /\ hook'.instanceRef \in {hook.instanceRef, Null}
               /\ window'.minted = window.minted
        /\ (hook.instanceRef # Null /\ hook'.instanceRef # Null) =>
               /\ hook'.csidRef = hook.csidRef
               /\ hook'.uidRef = hook.uidRef
        /\ (hook.instanceRef = Null /\ hook'.instanceRef # Null) =>
               /\ window'.minted = window.minted + 1
               /\ hook'.csidRef = window'.minted
               /\ hook'.instanceRef = hook'.csidRef
      ]_vars

\* C23 witness: initialize was called for the account now logged in while the
\* instance of an earlier login was live, and csid and uid are still those of
\* the earlier login
InitializeSkippedWhileLive ==
    /\ page.mounted /\ page.showBiometric
    /\ deferred = "none"
    /\ hook.instanceRef # Null
    /\ hook.csidRef = hook.instanceRef
    /\ hook.uidRef # Val(window.localStorage.user).id

\* the step clears the reference to a live instance in stop() or in the
\* unmount cleanup (a document load discards the hook itself)
ClearsInstance ==
    /\ hook.instanceRef # Null
    /\ hook' = [hook EXCEPT !.instanceRef = Null]

\* C24: whenever stop() or the unmount cleanup clears the reference to a live
\* instance, destroy() has been called on that instance.
DestroyedBeforeCleared ==
    [][ ClearsInstance => hook.instanceRef \in window'.destroyed ]_vars

\* C25: a request is sent only by a tick that completes a streak of 20 valid
\* samples and has drawn the frame and found at least 5% of its sampled
\* pixels non-black; the request carries the csid, videoValidated = true, and
\* the hook holds no instance once it is sent.
VerifyOnlyAfterChecks ==
    [][ sent' # sent =>
          /\ Samples
          /\ attempt'.validCaptureCount = requiredValidCaptures
          /\ sample'.canvas = "ok"
          /\ 100 * nonBlackPixels(sample'.frame, sampledPixels(sample'.frame))
                 >= nonBlackPercent * sampledPixels(sample'.frame)
          /\ sent' = Append(sent, [csid |-> hook.csidRef, actionID |-> "login",
                                   videoValidated |-> TRUE])
          /\ hook'.instanceRef = Null
      ]_vars

\* the Start button was pressed again on the biometric screen after an
\* attempt that had sampled, and the 300 ms wait is over
RestartProceeds ==
    /\ attempt.pc = "wait" /\ attempt.captureAttempts > 0
    /\ container
    /\ attempt'.pc \in {"sampling", "ended"}

\* C28: a restart after an attempt that failed starts a biometric session and
\* a sampling run with both counters at zero.
RestartStartsSession ==
    [][ RestartProceeds => attempt' = Attempt("sampling", 0, 0) ]_vars

\* C30: the hook holds an instance only while the login page is mounted and
\* on its biometric screen.
NoInstanceOffScreen ==
    hook.instanceRef # Null => page.mounted /\ page.showBiometric

\* C27: no two accounts share a case-folded email, and a registration with
\* both fields present that created no account, its email being taken, was
\* answered 400 'User already exists'.
DuplicateRegisterAnswered400 ==
    /\ \A r1, r2 \in users : r1.email = r2.email => r1 = r2
    /\ ( /\ last.kind = "register"
         /\ ~FalsyString(last.body.email) /\ ~FalsyString(last.body.password)
         /\ last.userId = Undefined ) =>
            last.res = Json(400, [error |-> "User already exists"])

---------------------------------------------------------------------------
(* The enrollment page *)

Urls == {RegisterUrl, LoginUrl, VerifyBiometricUrl, EnrollCompleteUrl, ProfileUrl}

\* the answers of an endpoint; a 401 or a 500 can come from any of them, and
\* a request can fail without an answer
EndpointAnswers(url) ==
    {Unauthorized, InternalServerError, NoResponse} \cup
    CASE url = RegisterUrl ->
             { registerRespond(u) : u \in Accounts }
                 \cup { Json(400, [error |-> "User already exists"]) }
      [] url = LoginUrl -> LoginAnswers
      [] url = VerifyBiometricUrl -> VerifyAnswers
      [] url = EnrollCompleteUrl ->
             { completeEnrollmentRespond, Json(400, [error |-> "CSID is required"]) }
      [] url = ProfileUrl -> { getProfileRespond(u) : u \in Accounts }
      [] OTHER -> {}

\* the enroll/complete requests followed on one page
MaxComplete == 2

\* the state of an Enroll component that has just mounted
FreshEnroll ==
    [mounted |-> TRUE, route |-> "/enroll", error |-> "", loading |-> FALSE,
     enrolling |-> FALSE, initialized |-> FALSE]

UserNotFound == "User not found. Please log in again."

\* `Failed to initialize SDK: ${message}`, whatever the message
EnrollInitFailed == "Failed to initialize SDK"

ContainerNotFound == "Camera container not found. Please refresh the page."

\* `Failed to start enrollment: ${message}`, whatever the message
EnrollStartFailed == "Failed to start enrollment"

EnrollNoSessionId == "Session ID not found. Please try starting enrollment again."

EnrollmentFailed == "Enrollment failed. Please try again."

\* cameraContainerRef.current of Enroll: the div exists while enrolling
enrollContainer == page.mounted /\ page.enrolling

\* initialize(uid) of useActionID: the refs and the csid counter afterwards,
\* and whether it threw
initializeHook(uid, throws) ==
    IF initialized
    THEN [hook |-> hook, minted |-> window.minted, threw |-> FALSE]
    ELSE IF ~window.Ironvest
    THEN [hook |-> hook, minted |-> window.minted, threw |-> TRUE]
    ELSE LET csid == window.minted + 1
         IN  [hook |-> [instanceRef |-> IF throws THEN Null ELSE csid,
                        csidRef |-> csid, uidRef |-> uid],
              minted |-> csid, threw |-> throws]

\* the Start Enrollment button up to the first wait: initialize and the
\* 500 ms wait when not initialized, else setEnrolling and the 100 ms wait
handleStartEnrollment(throws) ==
    /\ page.mounted /\ ~page.enrolling
    /\ deferred = "none"
    /\ page.initialized \/ window.minted < MaxInit
    /\ LET user == window.localStorage.user
       IN  IF user = Undefined
           THEN /\ page' = [page EXCEPT !.error = UserNotFound]
                /\ UNCHANGED <<window, hook, deferred>>
           ELSE IF page.initialized
           THEN /\ page' = [page EXCEPT !.error = "", !.enrolling = TRUE]
                /\ deferred' = "start"
                /\ UNCHANGED <<window, hook>>
           ELSE LET init == initializeHook(Val(user).id, throws)
                IN  /\ hook' = init.hook
                    /\ window' = [window EXCEPT !.minted = init.minted]
                    /\ IF init.threw
                       THEN /\ page' = [page EXCEPT !.error = EnrollInitFailed]
                            /\ deferred' = "none"
                       ELSE /\ page' = [page EXCEPT !.error = "",
                                                    !.initialized = TRUE]
                            /\ deferred' = "ready"
    /\ UNCHANGED <<attempt, sample, sent, call>>

\* handleStartEnrollment after the 500 ms: setEnrolling(true) and the 100 ms
\* wait
enrollReady ==
    /\ deferred = "ready"
    /\ page' = setState([page EXCEPT !.enrolling = TRUE])
    /\ deferred' = "start"
    /\ UNCHANGED <<window, hook, attempt, sample, sent, call>>

\* handleStartEnrollment after the 100 ms: the container check,
\* startBiometric, and the outer catch
startEnrollment(throws) ==
    /\ deferred = "start"
    /\ deferred' = "none"
    /\ page' = setState(
           IF ~enrollContainer
           THEN [page EXCEPT !.error = ContainerNotFound, !.enrolling = FALSE]
           ELSE IF hook.instanceRef = Null \/ throws
           THEN [page EXCEPT !.error = EnrollStartFailed, !.enrolling = FALSE,
                             !.initialized = FALSE]
           ELSE page)
    /\ UNCHANGED <<window, hook, attempt, sample, sent, call>>

\* the Complete Enrollment button up to `await authService.completeEnrollment`
handleCompleteEnrollment(throws) ==
    /\ page.mounted /\ page.enrolling /\ ~page.loading
    /\ call.pc # "pending"
    /\ Len(sent) < MaxComplete
    /\ IF getCsid = Null
       THEN /\ page' = [page EXCEPT !.error = EnrollNoSessionId]
            /\ UNCHANGED <<window, hook, sent, call>>
       ELSE /\ page' = [page EXCEPT !.loading = TRUE, !.error = ""]
            /\ hook' = stop
            /\ window' = stopSdk(throws)
            /\ sent' = Append(sent, [csid |-> getCsid])
            /\ call' = Call("pending", EnrollCompleteUrl, NoResponse, FALSE)
    /\ UNCHANGED <<deferred, attempt, sample>>

\* handleCompleteEnrollment after the answer: navigate('/home'), the error,
\* or, on a 500, the wait before the profile is asked for
completeEnrollmentAnswer(res, throws) ==
    /\ call.pc = "pending" /\ call.url = EnrollCompleteUrl
    /\ LET localStorage == enrollSession(res, window.localStorage)
       IN
       IF resolves(res) /\ res.body.enrolled
       THEN /\ page' = [page EXCEPT !.mounted = FALSE,
                            !.route = ProtectedRoute("/home", localStorage)]
            /\ hook' = cleanup
            /\ window' = [cleanupSdk(throws) EXCEPT !.localStorage = localStorage]
            /\ call' = Call("settled", EnrollCompleteUrl, res, FALSE)
       ELSE /\ hook' = stop
            /\ window' = [stopSdk(throws) EXCEPT !.localStorage = localStorage]
            /\ IF res.status = 500
               THEN /\ call' = Call("pending", ProfileUrl, res, TRUE)
                    /\ page' = page
               ELSE /\ call' = Call("settled", EnrollCompleteUrl, res, ~resolves(res))
                    /\ page' = setState([page EXCEPT
                           !.error = IF resolves(res) \/ res.status = 0
                                     THEN EnrollmentFailed ELSE res.body.error,
                           !.loading = FALSE])
    /\ UNCHANGED <<deferred, attempt, sample, sent>>

\* the catch of handleCompleteEnrollment after the 1 s wait and the answer of
\* getProfile: navigate('/home'), or the error of the failed completion
getProfileAnswer(res, throws) ==
    /\ call.pc = "pending" /\ call.url = ProfileUrl
    /\ call' = Call("settled", ProfileUrl, res, ~resolves(res))
    /\ LET localStorage ==
               IF resolves(res) THEN window.localStorage
               ELSE interceptor(ProfileUrl, res, window.localStorage)
       IN
       IF signsOut(ProfileUrl, res)
       THEN \* window.location.href = '/login': the document is loaded anew
            /\ page' = [page EXCEPT !.mounted = FALSE, !.route = "/login"]
            /\ hook' = FreshHook
            /\ window' = [window EXCEPT !.localStorage = localStorage]
       ELSE IF resolves(res) /\ res.body.user.enrolled
       THEN /\ page' = [page EXCEPT !.mounted = FALSE,
                            !.route = ProtectedRoute("/home", localStorage)]
            /\ hook' = cleanup
            /\ window' = cleanupSdk(throws)
       ELSE /\ page' = setState([page EXCEPT !.error = call.res.body.error,
                                              !.loading = FALSE])
            /\ UNCHANGED <<window, hook>>
    /\ UNCHANGED <<deferred, attempt, sample, sent>>

\* the Cancel button, disabled while loading
handleCancel(throws) ==
    /\ page.mounted /\ page.enrolling /\ ~page.loading
    /\ hook' = stop
    /\ window' = stopSdk(throws)
    /\ page' = [page EXCEPT !.enrolling = FALSE, !.error = ""]
    /\ UNCHANGED <<deferred, attempt, sample, sent, call>>

\* an account not yet enrolled has registered or logged in and been sent to
\* /enroll
EnrollInit ==
    /\ StoreInit
    /\ \E Ironvest \in BOOLEAN, u \in { a \in Accounts : ~a.enrolled } :
           window = [Ironvest |-> Ironvest, minted |-> 0, destroyed |-> {},
                     localStorage |-> storeSession(RegisterUrl, registerRespond(u),
                                                   NoStorage)]
    /\ hook = FreshHook
    /\ page = FreshEnroll
    /\ deferred = "none"
    /\ attempt = Attempt("none", 0, 0)
    /\ sample = NoSample
    /\ sent = << >>
    /\ call = NoCall

EnrollNext ==
    \/ \E throws \in BOOLEAN : handleStartEnrollment(throws) /\ UNCHANGED backend
    \/ enrollReady /\ UNCHANGED backend
    \/ \E throws \in BOOLEAN : startEnrollment(throws) /\ UNCHANGED backend
    \/ \E throws \in Throws : handleCompleteEnrollment(throws) /\ UNCHANGED backend
    \/ \E res \in EndpointAnswers(EnrollCompleteUrl), throws \in Throws :
           completeEnrollmentAnswer(res, throws) /\ UNCHANGED backend
    \/ \E res \in EndpointAnswers(ProfileUrl), throws \in Throws :
           getProfileAnswer(res, throws) /\ UNCHANGED backend
    \/ \E throws \in Throws : handleCancel(throws) /\ UNCHANGED backend
    \/ \E throws \in Throws : unmount(throws) /\ UNCHANGED <<backend, call>>

EnrollSpec == EnrollInit /\ [][EnrollNext]_vars

---------------------------------------------------------------------------
(* authService under any caller *)

\* api.post / api.get up to the `await`
request(url) ==
    /\ call.pc # "pending"
    /\ call' = Call("pending", url, NoResponse, FALSE)
    /\ UNCHANGED <<window, page>>

\* the call settles: what authService and the interceptor do to localStorage
\* and to the location, and the promise the caller gets
settle(res) ==
    /\ call.pc = "pending"
    /\ LET url == call.url
           localStorage == window.localStorage
       IN  /\ window' = [window EXCEPT !.localStorage =
                  CASE url \in {RegisterUrl, LoginUrl} ->
                           storeSession(url, res, localStorage)
                    [] url = EnrollCompleteUrl -> enrollSession(res, localStorage)
                    [] OTHER -> IF resolves(res) THEN localStorage
                                ELSE interceptor(url, res, localStorage)]
           /\ page' = IF signsOut(url, res) THEN FreshLogin ELSE page
           /\ call' = Call("settled", url, res, ~resolves(res))

\* Home.handleLogout: authService.logout() and navigate('/login')
handleLogout ==
    /\ page.route = "/home"
    /\ window' = [window EXCEPT !.localStorage = NoStorage]
    /\ page' = FreshLogin
    /\ UNCHANGED call

ApiInit == StoreInit /\ PageInit(TRUE)

ApiNext ==
    \/ \E url \in Urls : request(url)
           /\ UNCHANGED <<backend, hook, deferred, attempt, sample, sent>>
    \/ \E res \in EndpointAnswers(call.url) : settle(res)
           /\ UNCHANGED <<backend, hook, deferred, attempt, sample, sent>>
    \/ handleLogout
           /\ UNCHANGED <<backend, hook, deferred, attempt, sample, sent>>
    \/ \E path \in Paths : load(path) /\ UNCHANGED <<backend, call>>

ApiSpec == ApiInit /\ [][ApiNext]_vars

\* the step settles a call
Settles == call.pc = "pending" /\ call'.pc = "settled"

\* C26: a call answered 401 by an endpoint other than verify-biometric and
\* enroll/complete leaves no token and no user stored and the location at
\* /login; a call to one of these two that fails, with 401 or otherwise,
\* leaves the stored token and user and the page as they are; every call that
\* fails is rejected to its caller.
UnauthorizedHandling ==
    [][ Settles =>
          /\ ( /\ call'.res.status = 401
               /\ call'.url \notin {VerifyBiometricUrl, EnrollCompleteUrl} ) =>
                  /\ window'.localStorage = NoStorage
                  /\ page' = FreshLogin
          /\ ( /\ call'.res.status \notin 200..299
               /\ call'.url \in {VerifyBiometricUrl, EnrollCompleteUrl} ) =>
                  /\ window'.localStorage = window.localStorage
                  /\ page' = page
          /\ call'.res.status \notin 200..299 => call'.rejected
      ]_vars

\* C26 witness: verify-biometric was answered 401 on /home and the session is
\* still stored
UnauthorizedVerifyKeepsSession ==
    /\ call = Call("settled", VerifyBiometricUrl, Unauthorized, TRUE)
    /\ isAuthenticated(window.localStorage)
    /\ window.localStorage.user # Undefined
    /\ page.route = "/home"

\* C22: an enroll/complete request is sent only once the sampler has counted
\* a streak of 20 valid samples of the camera stream.
EnrollAfterLiveness ==
    [][ sent' # sent =>
          /\ attempt.validCaptureCount = requiredValidCaptures
          /\ isValidCapture(sample)
      ]_vars

\* C29: the enrollment page's `initialized` flag is set only while the hook
\* holds an instance, so that Start Enrollment initializes whenever none is
\* held.
InitializedOnlyWhileLive ==
    (page.mounted /\ page.initialized) => hook.instanceRef # Null

====
